---- MODULE Spec2Model ----
(***************************************************************************)
(* A model of the two utilities of DisplayFPSTracker:                      *)
(*   src/fps_tracker.py  - the Sampler (run_tracker and its __main__)      *)
(*   src/csv_plotter.py  - the Analyzer (classifier, detect_anomalies,     *)
(*                         main)                                           *)
(* Program positions are named after the source line they stand at.        *)
(* Time is counted in clock ticks, TicksPerSecond of them to a second.     *)
(***************************************************************************)
EXTENDS Integers, Sequences, FiniteSets, TLC

\* ---------------------------------------------------------------- bounds
TicksPerSecond == 2
MaxTime == 7
MaxDuration == 2
MaxDelay == 1
MaxFrames == 4
MaxInterrupts == 2

\* ------------------------------------------------------ program constants
\* run_duration = 'infinite' (fps_tracker.py:113), kept apart from every
\* integer duration int(...lstrip('-')) can give.
Infinite == -1

VARIABLES
    \* ---- Sampler (fps_tracker.py)
    pc,                     \* position of the Sampler process
    now,                    \* the clock read by time.time() / datetime.now()
    duration, delay,        \* arguments of run_tracker
    wake,                   \* instant at which time.sleep(delay) returns
    file,                   \* the log file on disk: a sequence of records
    buf,                    \* records written to the open file object, not yet flushed
    start_time, frame_count, last_log_time, total_frames_captured,
    current_time, fps, active_window, timestamp,
    pending,                \* exception in flight while the finally block runs
    outcome,                \* how the process ended
    summary,                \* the summary of lines 95-99 was printed
    headerWritten,          \* the with block of lines 47-49 completed
    \* ---- history of the Sampler run
    boundaries,             \* iterations whose test of line 69 was true
    lastQuery,              \* what the last gw.getActiveWindow() did
    loopExit,               \* how the while loop was left
    interrupts,             \* KeyboardInterrupts delivered so far
    intrAt,                 \* phase at which the first one arrived
    \* ---- detect_anomalies (csv_plotter.py)
    apc,                    \* position inside detect_anomalies
    series,                 \* df[numeric_col]: one cell per row
    threshold,
    mean, std,              \* exact rationals; std is held by its square
    anomalies,              \* the returned mask
    dividedByZero,          \* line 41 was executed with std = 0
    \* ---- main of the Analyzer (csv_plotter.py)
    mpc,                    \* position inside main
    csvExists,              \* os.path.exists(csv_path)
    commaResult, semiResult,\* what pd.read_csv does under each delimiter
    df,                     \* the loaded table: its columns in declared order
    time_col, numeric_cols,
    outdir,                 \* the output directory exists
    images,                 \* columns whose plot was written
    plotted,                \* columns of numeric_cols already handled
    diagnostic,             \* the error message printed, if any
    reads,                  \* calls of pd.read_csv
    mainOutcome             \* how main ended

trackerVars == << pc, now, duration, delay, wake, file, buf, start_time,
                  frame_count, last_log_time, total_frames_captured,
                  current_time, fps, active_window, timestamp, pending,
                  outcome, summary, headerWritten, boundaries, lastQuery,
                  loopExit, interrupts, intrAt >>

anomalyVars == << apc, series, threshold, mean, std, anomalies, dividedByZero >>

plotterVars == << mpc, csvExists, commaResult, semiResult, df, time_col,
                  numeric_cols, outdir, images, plotted, diagnostic, reads,
                  mainOutcome >>

vars == << trackerVars, anomalyVars, plotterVars >>

\* =========================================================================
\*                      Sampler: src/fps_tracker.py
\* =========================================================================

\* The header row of line 49.
Header == << "timestamp", "fps", "active_window" >>

\* What fps_log.csv may hold before the run: nothing, or an older log.
PriorFiles == { << >>, << << "stale" >> >> }

\* sys.argv[1] as __main__ sees it: leading dashes, then a word.
DurationArgs ==
    [ dash : BOOLEAN, word : {"infinite", "abc"}, val : {0} ]
      \cup [ dash : BOOLEAN, word : {"int"}, val : 0..MaxDuration ]

\* Lines 112-120: '-infinite' is the sentinel; anything else goes through
\* int(args.duration.lstrip('-')), which fails on a non-integer word.
ParseError == -2
ParseDuration(arg) ==
    IF arg.dash /\ arg.word = "infinite" THEN Infinite
    ELSE IF arg.word = "int" THEN arg.val
    ELSE ParseError

\* open(output_file, 'w'): the file is truncated.
OpenWrite(f) == << >>

\* open(output_file, 'a'): the file is kept.
OpenAppend(f) == f

\* Variant of WriteRow: the record reaches the file object without its last field.
WriteRowTorn(b, row) == Append(b, SubSeq(row, 1, Len(row) - 1))

\* csv.writer.writerow: the whole record goes to the file object in one write.
WriteRow(b, row) == Append(b, row)

\* Closing the file object (the with block's exit) flushes its buffer.
Close(f, b) == f \o b

\* Variant of DurationReached: > in place of >=.
DurationReachedLate(d, t, st) ==
    d # Infinite /\ t - st > d * TicksPerSecond

\* Line 61: duration != 'infinite' and time.time() - start_time >= duration.
DurationReached(d, t, st) ==
    d # Infinite /\ t - st >= d * TicksPerSecond

\* Line 69: current_time - last_log_time >= 1.0.
BoundaryReached(ct, llt) == ct - llt >= TicksPerSecond

\* Lines 70-71 and the f"{fps:.2f}" of line 77: the rate in hundredths.
FormatFps(fc, elapsed) ==
    IF elapsed > 0
    THEN (2 * fc * TicksPerSecond * 100 + elapsed) \div (2 * elapsed)
    ELSE 0

\* Lines 13-23: what get_active_window_title returns for each behaviour of
\* gw.getActiveWindow(); "raise" when the exception is not caught there.
WindowOutcomes == {"title", "None", "PyGetWindowException", "OtherException"}
get_active_window_title(q) ==
    CASE q = "title" -> "Title"
      [] q = "None" -> "N/A"
      [] q = "PyGetWindowException" -> "Desktop"
      [] OTHER -> "raise"

TrackerInit ==
    /\ pc = "main"
    /\ now = 0
    /\ duration = 0
    /\ delay = 0
    /\ wake = 0
    /\ file \in PriorFiles
    /\ buf = << >>
    /\ start_time = 0
    /\ frame_count = 0
    /\ last_log_time = 0
    /\ total_frames_captured = 0
    /\ current_time = 0
    /\ fps = 0
    /\ active_window = ""
    /\ timestamp = 0
    /\ pending = "none"
    /\ outcome = "running"
    /\ summary = FALSE
    /\ headerWritten = FALSE
    /\ boundaries = 0
    /\ lastQuery = "unset"
    /\ loopExit = "none"
    /\ interrupts = 0
    /\ intrAt = "none"

\* The clock advances on its own, between any two steps of the program.
Tick ==
    /\ outcome = "running"
    /\ pc # "main"
    /\ now < MaxTime
    /\ now' = now + 1
    /\ UNCHANGED << pc, duration, delay, wake, file, buf, start_time,
                    frame_count, last_log_time, total_frames_captured,
                    current_time, fps, active_window, timestamp, pending,
                    outcome, summary, headerWritten, boundaries, lastQuery,
                    loopExit, interrupts, intrAt >>
    /\ UNCHANGED << anomalyVars, plotterVars >>

\* Lines 102-122: parse the arguments, then exit(1) or call run_tracker.
Main ==
    /\ pc = "main"
    /\ \E arg \in DurationArgs, dl \in 0..MaxDelay :
         IF ParseDuration(arg) = ParseError
         THEN /\ pc' = "done"
              /\ outcome' = "exit1"
              /\ UNCHANGED << duration, delay >>
         ELSE /\ pc' = "L35"
              /\ duration' = ParseDuration(arg)
              /\ delay' = dl
              /\ UNCHANGED outcome
    /\ UNCHANGED << now, wake, file, buf, start_time, frame_count,
                    last_log_time, total_frames_captured, current_time, fps,
                    active_window, timestamp, pending, summary,
                    headerWritten, boundaries, lastQuery, loopExit,
                    interrupts, intrAt >>
    /\ UNCHANGED << anomalyVars, plotterVars >>

\* Lines 35-37: if delay > 0, time.sleep(delay) is entered.
L35_Delay ==
    /\ pc = "L35"
    /\ IF delay > 0
       THEN pc' = "L37" /\ wake' = now + delay * TicksPerSecond
       ELSE pc' = "L47" /\ UNCHANGED wake
    /\ UNCHANGED << now, duration, delay, file, buf, start_time, frame_count,
                    last_log_time, total_frames_captured, current_time, fps,
                    active_window, timestamp, pending, outcome, summary,
                    headerWritten, boundaries, lastQuery, loopExit,
                    interrupts, intrAt >>
    /\ UNCHANGED << anomalyVars, plotterVars >>

\* Line 37: time.sleep(delay) returns once the delay has passed.
L37_Sleep ==
    /\ pc = "L37"
    /\ now >= wake
    /\ pc' = "L47"
    /\ UNCHANGED << now, duration, delay, wake, file, buf, start_time,
                    frame_count, last_log_time, total_frames_captured,
                    current_time, fps, active_window, timestamp, pending,
                    outcome, summary, headerWritten, boundaries, lastQuery,
                    loopExit, interrupts, intrAt >>
    /\ UNCHANGED << anomalyVars, plotterVars >>

\* Line 47: open(output_file, 'w').
L47_OpenHeader ==
    /\ pc = "L47"
    /\ file' = OpenWrite(file)
    /\ buf' = << >>
    /\ pc' = "L49"
    /\ UNCHANGED << now, duration, delay, wake, start_time, frame_count,
                    last_log_time, total_frames_captured, current_time, fps,
                    active_window, timestamp, pending, outcome, summary,
                    headerWritten, boundaries, lastQuery, loopExit,
                    interrupts, intrAt >>
    /\ UNCHANGED << anomalyVars, plotterVars >>

\* Line 49: writer.writerow(['timestamp', 'fps', 'active_window']).
L49_WriteHeader ==
    /\ pc = "L49"
    /\ buf' = WriteRow(buf, Header)
    /\ pc' = "L49x"
    /\ UNCHANGED << now, duration, delay, wake, file, start_time, frame_count,
                    last_log_time, total_frames_captured, current_time, fps,
                    active_window, timestamp, pending, outcome, summary,
                    headerWritten, boundaries, lastQuery, loopExit,
                    interrupts, intrAt >>
    /\ UNCHANGED << anomalyVars, plotterVars >>

\* End of the with block of line 47: the file is closed.
L49_CloseHeader ==
    /\ pc = "L49x"
    /\ file' = Close(file, buf)
    /\ buf' = << >>
    /\ headerWritten' = TRUE
    /\ pc' = "L51"
    /\ UNCHANGED << now, duration, delay, wake, start_time, frame_count,
                    last_log_time, total_frames_captured, current_time, fps,
                    active_window, timestamp, pending, outcome, summary,
                    boundaries, lastQuery, loopExit, interrupts, intrAt >>
    /\ UNCHANGED << anomalyVars, plotterVars >>

\* Lines 51-54.
L51_Setup ==
    /\ pc = "L51"
    /\ start_time' = now
    /\ frame_count' = 0
    /\ last_log_time' = now
    /\ total_frames_captured' = 0
    /\ pc' = "L61"
    /\ UNCHANGED << now, duration, delay, wake, file, buf, current_time, fps,
                    active_window, timestamp, pending, outcome, summary,
                    headerWritten, boundaries, lastQuery, loopExit,
                    interrupts, intrAt >>
    /\ UNCHANGED << anomalyVars, plotterVars >>

\* Lines 60-62: the duration check at the top of the loop; break leads to
\* the finally block.
L61_CheckDuration ==
    /\ pc = "L61"
    /\ IF DurationReached(duration, now, start_time)
       THEN pc' = "L92" /\ loopExit' = "break"
       ELSE pc' = "L64" /\ UNCHANGED loopExit
    /\ UNCHANGED << now, duration, delay, wake, file, buf, start_time,
                    frame_count, last_log_time, total_frames_captured,
                    current_time, fps, active_window, timestamp, pending,
                    outcome, summary, headerWritten, boundaries, lastQuery,
                    interrupts, intrAt >>
    /\ UNCHANGED << anomalyVars, plotterVars >>

\* Line 64: sct.grab(monitor) returns, or raises (mss.ScreenShotError); no
\* handler of run_tracker catches it, so the finally block runs and the
\* exception goes on.
L64_Grab ==
    /\ pc = "L64"
    /\ total_frames_captured < MaxFrames
    /\ \/ /\ pc' = "L65"
          /\ UNCHANGED << pending, loopExit >>
       \/ /\ pc' = "L92"
          /\ pending' = "Exception"
          /\ loopExit' = "capture_error"
    /\ UNCHANGED << now, duration, delay, wake, file, buf, start_time,
                    frame_count, last_log_time, total_frames_captured,
                    current_time, fps, active_window, timestamp, outcome,
                    summary, headerWritten, boundaries, lastQuery,
                    interrupts, intrAt >>
    /\ UNCHANGED << anomalyVars, plotterVars >>

\* Lines 65-67.
L65_Count ==
    /\ pc = "L65"
    /\ frame_count' = frame_count + 1
    /\ total_frames_captured' = total_frames_captured + 1
    /\ current_time' = now
    /\ pc' = "L69"
    /\ UNCHANGED << now, duration, delay, wake, file, buf, start_time,
                    last_log_time, fps, active_window, timestamp, pending,
                    outcome, summary, headerWritten, boundaries, lastQuery,
                    loopExit, interrupts, intrAt >>
    /\ UNCHANGED << anomalyVars, plotterVars >>

\* Lines 69-71: the 1-second boundary test, and the rate of the interval.
L69_Boundary ==
    /\ pc = "L69"
    /\ IF BoundaryReached(current_time, last_log_time)
       THEN /\ boundaries' = boundaries + 1
            /\ fps' = FormatFps(frame_count, current_time - last_log_time)
            /\ pc' = "L72"
       ELSE /\ pc' = "L61"
            /\ UNCHANGED << boundaries, fps >>
    /\ UNCHANGED << now, duration, delay, wake, file, buf, start_time,
                    frame_count, last_log_time, total_frames_captured,
                    current_time, active_window, timestamp, pending, outcome,
                    summary, headerWritten, lastQuery, loopExit, interrupts,
                    intrAt >>
    /\ UNCHANGED << anomalyVars, plotterVars >>

\* Lines 72-73: the window title and the timestamp of the record. An
\* exception get_active_window_title does not catch leaves run_tracker
\* through the finally block.
L72_Query ==
    /\ pc = "L72"
    /\ \E q \in WindowOutcomes :
         /\ lastQuery' = q
         /\ IF get_active_window_title(q) = "raise"
            THEN /\ pc' = "L92"
                 /\ pending' = "Exception"
                 /\ loopExit' = "query_error"
                 /\ UNCHANGED << active_window, timestamp >>
            ELSE /\ active_window' = get_active_window_title(q)
                 /\ timestamp' = now
                 /\ pc' = "L75"
                 /\ UNCHANGED << pending, loopExit >>
    /\ UNCHANGED << now, duration, delay, wake, file, buf, start_time,
                    frame_count, last_log_time, total_frames_captured,
                    current_time, fps, outcome, summary, headerWritten,
                    boundaries, interrupts, intrAt >>
    /\ UNCHANGED << anomalyVars, plotterVars >>

\* Line 75: open(output_file, 'a').
L75_OpenAppend ==
    /\ pc = "L75"
    /\ file' = OpenAppend(file)
    /\ buf' = << >>
    /\ pc' = "L77"
    /\ UNCHANGED << now, duration, delay, wake, start_time, frame_count,
                    last_log_time, total_frames_captured, current_time, fps,
                    active_window, timestamp, pending, outcome, summary,
                    headerWritten, boundaries, lastQuery, loopExit,
                    interrupts, intrAt >>
    /\ UNCHANGED << anomalyVars, plotterVars >>

\* Line 77: writer.writerow([timestamp, f"{fps:.2f}", active_window]).
L77_WriteRow ==
    /\ pc = "L77"
    /\ buf' = WriteRow(buf, << timestamp, fps, active_window >>)
    /\ pc' = "L77x"
    /\ UNCHANGED << now, duration, delay, wake, file, start_time, frame_count,
                    last_log_time, total_frames_captured, current_time, fps,
                    active_window, timestamp, pending, outcome, summary,
                    headerWritten, boundaries, lastQuery, loopExit,
                    interrupts, intrAt >>
    /\ UNCHANGED << anomalyVars, plotterVars >>

\* End of the with block of line 75: the file is closed.
L77_CloseRow ==
    /\ pc = "L77x"
    /\ file' = Close(file, buf)
    /\ buf' = << >>
    /\ pc' = "L86"
    /\ UNCHANGED << now, duration, delay, wake, start_time, frame_count,
                    last_log_time, total_frames_captured, current_time, fps,
                    active_window, timestamp, pending, outcome, summary,
                    headerWritten, boundaries, lastQuery, loopExit,
                    interrupts, intrAt >>
    /\ UNCHANGED << anomalyVars, plotterVars >>

\* Lines 79-87: the progress line, then the counter and the anchor are reset.
L86_Reset ==
    /\ pc = "L86"
    /\ frame_count' = 0
    /\ last_log_time' = current_time
    /\ pc' = "L61"
    /\ UNCHANGED << now, duration, delay, wake, file, buf, start_time,
                    total_frames_captured, current_time, fps, active_window,
                    timestamp, pending, outcome, summary, headerWritten,
                    boundaries, lastQuery, loopExit, interrupts, intrAt >>
    /\ UNCHANGED << anomalyVars, plotterVars >>

\* Lines 89-90: except KeyboardInterrupt prints and falls to the finally block.
L90_Except ==
    /\ pc = "L90"
    /\ pc' = "L92"
    /\ UNCHANGED << now, duration, delay, wake, file, buf, start_time,
                    frame_count, last_log_time, total_frames_captured,
                    current_time, fps, active_window, timestamp, pending,
                    outcome, summary, headerWritten, boundaries, lastQuery,
                    loopExit, interrupts, intrAt >>
    /\ UNCHANGED << anomalyVars, plotterVars >>

\* Lines 91-99: the finally block prints the summary; an exception in
\* flight then leaves run_tracker, otherwise run_tracker returns.
L92_Finally ==
    /\ pc = "L92"
    /\ summary' = TRUE
    /\ outcome' = IF pending = "none" THEN "returned" ELSE pending
    /\ pc' = "done"
    /\ UNCHANGED << now, duration, delay, wake, file, buf, start_time,
                    frame_count, last_log_time, total_frames_captured,
                    current_time, fps, active_window, timestamp, pending,
                    headerWritten, boundaries, lastQuery, loopExit,
                    interrupts, intrAt >>
    /\ UNCHANGED << anomalyVars, plotterVars >>

\* Where each position lies with respect to the try statement of line 56.
BeforeTry == {"L35", "L37", "L47", "L49", "L49x", "L51"}
InTry == {"L61", "L64", "L65", "L69", "L72", "L75", "L77", "L77x", "L86"}
InWith == {"L49", "L49x", "L77", "L77x"}

Phase(p) ==
    CASE p = "L35" -> "entry"
      [] p = "L37" -> "delay"
      [] p \in {"L47", "L49", "L49x"} -> "header"
      [] p = "L51" -> "setup"
      [] p \in {"L61", "L64", "L65", "L69"} -> "loop"
      [] p \in {"L72", "L75", "L77", "L77x", "L86"} -> "flush"
      [] OTHER -> "handler"

\* Ctrl+C: a KeyboardInterrupt raised at the current position. A with block
\* closes its file on the way out. Inside the try statement the handler of
\* line 89 catches it; before the try statement nothing does; in the
\* handler it is in flight while the finally block runs; in the finally
\* block it leaves run_tracker at once.
Interrupt ==
    /\ outcome = "running"
    /\ pc \in BeforeTry \cup InTry \cup {"L90", "L92"}
    /\ interrupts < MaxInterrupts
    /\ interrupts' = interrupts + 1
    /\ intrAt' = IF interrupts = 0 THEN Phase(pc) ELSE intrAt
    /\ IF pc \in InWith
       THEN file' = Close(file, buf) /\ buf' = << >>
       ELSE UNCHANGED << file, buf >>
    /\ \/ /\ pc \in BeforeTry
          /\ pc' = "done"
          /\ outcome' = "KeyboardInterrupt"
          /\ UNCHANGED << pending, loopExit >>
       \/ /\ pc \in InTry
          /\ pc' = "L90"
          /\ loopExit' = "interrupt"
          /\ UNCHANGED << pending, outcome >>
       \/ /\ pc = "L90"
          /\ pc' = "L92"
          /\ pending' = "KeyboardInterrupt"
          /\ UNCHANGED << outcome, loopExit >>
       \/ /\ pc = "L92"
          /\ pc' = "done"
          /\ outcome' = "KeyboardInterrupt"
          /\ UNCHANGED << pending, loopExit >>
    /\ UNCHANGED << now, duration, delay, wake, start_time, frame_count,
                    last_log_time, total_frames_captured, current_time, fps,
                    active_window, timestamp, summary, headerWritten,
                    boundaries, lastQuery >>
    /\ UNCHANGED << anomalyVars, plotterVars >>

TrackerNext ==
    \/ Tick
    \/ Main
    \/ L35_Delay
    \/ L37_Sleep
    \/ L47_OpenHeader
    \/ L49_WriteHeader
    \/ L49_CloseHeader
    \/ L51_Setup
    \/ L61_CheckDuration
    \/ L64_Grab
    \/ L65_Count
    \/ L69_Boundary
    \/ L72_Query
    \/ L75_OpenAppend
    \/ L77_WriteRow
    \/ L77_CloseRow
    \/ L86_Reset
    \/ L90_Except
    \/ L92_Finally
    \/ Interrupt


\* =========================================================================
\*              detect_anomalies: src/csv_plotter.py, lines 31-44
\* =========================================================================

MaxRows == 12
MaxOutliers == 2

\* ANOMALY_THRESHOLD_Z_SCORE = 3.0
ANOMALY_THRESHOLD_Z_SCORE == 3

\* A cell of a numeric column: a number, or a missing value (NaN).
Num(v) == [nan |-> FALSE, v |-> v]
NaNCell == [nan |-> TRUE, v |-> 0]

\* An exact rational num/den, or NaN.
NaN == [nan |-> TRUE, num |-> 0, den |-> 1]
Ratio(n, d) == [nan |-> FALSE, num |-> n, den |-> d]

Bases == {0, 2}
Thresholds == {0 - 1, 0, 1, ANOMALY_THRESHOLD_Z_SCORE}

\* The columns tried: a base value in every row but at most MaxOutliers,
\* which hold base+1, base+4 or a missing value.
OutlierCells(b) == {Num(b + 1), Num(b + 4), NaNCell}
Columns ==
    UNION { UNION { UNION { { [i \in 1..n |-> IF i \in S THEN f[i] ELSE Num(b)] :
                              f \in [S -> OutlierCells(b)] } :
                            S \in {T \in SUBSET (1..n) : Cardinality(T) <= MaxOutliers} } :
                    b \in Bases } :
            n \in 0..MaxRows }

IsMissing(c) == c.nan
NonMissing(s) == SelectSeq(s, LAMBDA c : ~IsMissing(c))

RECURSIVE SumCells(_)
SumCells(s) == IF s = << >> THEN 0 ELSE Head(s).v + SumCells(Tail(s))

RECURSIVE SumSqDev(_, _, _)
\* sum over the cells of s of (den*v - num)^2
SumSqDev(s, num, den) ==
    IF s = << >> THEN 0
    ELSE (den * Head(s).v - num) * (den * Head(s).v - num)
           + SumSqDev(Tail(s), num, den)

\* Line 34: Series.mean() skips missing values; NaN when none is left.
series_mean(s) ==
    LET x == NonMissing(s)
    IN  IF Len(x) = 0 THEN NaN ELSE Ratio(SumCells(x), Len(x))

\* The square of Series.std(ddof) over the non-missing values: the sum of
\* squared deviations from the mean over (count - ddof); NaN when
\* count - ddof <= 0.
Variance(s, ddof) ==
    LET x == NonMissing(s)
        m == Len(x)
    IN  IF m - ddof <= 0 THEN NaN
        ELSE Ratio(SumSqDev(x, SumCells(x), m), m * m * (m - ddof))

\* Variant of series_std: the population standard deviation (ddof = 0).
series_std_population(s) == Variance(s, 0)

\* Line 35: Series.std() with pandas' default ddof = 1.
series_std(s) == Variance(s, 1)

\* Variant of StdIsZero: the guard of line 38 left out.
StdIsZeroNever(sd) == FALSE

\* Line 38: std == 0 (False for NaN).
StdIsZero(sd) == ~sd.nan /\ sd.num = 0

\* Lines 41-42 for one cell: abs((v - mean) / std) > threshold. A NaN
\* operand makes the comparison False; a non-zero deviation over a zero std
\* is infinite.
ZAbove(c, mu, sd, t) ==
    IF c.nan \/ mu.nan \/ sd.nan THEN FALSE
    ELSE LET dev == c.v * mu.den - mu.num
         IN  IF sd.num = 0 THEN dev # 0
             ELSE t < 0 \/ dev * dev * sd.den > t * t * mu.den * mu.den * sd.num

AnomalyIdle ==
    /\ apc = "idle"
    /\ series = << >>
    /\ threshold = 0
    /\ mean = NaN
    /\ std = NaN
    /\ anomalies = << >>
    /\ dividedByZero = FALSE

AnomalyInit ==
    /\ apc = "L33"
    /\ series \in Columns
    /\ threshold \in Thresholds
    /\ mean = NaN
    /\ std = NaN
    /\ anomalies = << >>
    /\ dividedByZero = FALSE

\* Lines 33-35.
A33_Stats ==
    /\ apc = "L33"
    /\ mean' = series_mean(series)
    /\ std' = series_std(series)
    /\ apc' = "L38"
    /\ UNCHANGED << series, threshold, anomalies, dividedByZero >>
    /\ UNCHANGED << trackerVars, plotterVars >>

\* Lines 38-39: a zero std returns a mask of False, one per row.
A38_ZeroStd ==
    /\ apc = "L38"
    /\ IF StdIsZero(std)
       THEN /\ anomalies' = [i \in 1..Len(series) |-> FALSE]
            /\ apc' = "done"
       ELSE /\ apc' = "L41"
            /\ UNCHANGED anomalies
    /\ UNCHANGED << series, threshold, mean, std, dividedByZero >>
    /\ UNCHANGED << trackerVars, plotterVars >>

\* Lines 41-44.
A41_ZScores ==
    /\ apc = "L41"
    /\ dividedByZero' = (~std.nan /\ std.num = 0)
    /\ anomalies' = [i \in 1..Len(series) |-> ZAbove(series[i], mean, std, threshold)]
    /\ apc' = "done"
    /\ UNCHANGED << series, threshold, mean, std >>
    /\ UNCHANGED << trackerVars, plotterVars >>

AnomalyNext ==
    \/ A33_Stats
    \/ A38_ZeroStd
    \/ A41_ZScores


\* =========================================================================
\*        Column classifier and main: src/csv_plotter.py, lines 14-129
\* =========================================================================

MaxCols == 3

\* Column names are sequences of characters. None, the value of time_col
\* when no column matches, is the empty sequence: no column carries it.
None == << >>

Timestamp == << "T", "i", "m", "e", "s", "t", "a", "m", "p" >>
value_ms == << "v", "a", "l", "u", "e", "_", "m", "s" >>
TIME == << "T", "I", "M", "E" >>
runtime == << "r", "u", "n", "t", "i", "m", "e" >>
fpsName == << "f", "p", "s" >>
tim == << "t", "i", "m" >>
indexName == << "i", "n", "d", "e", "x" >>
ColumnNames == { Timestamp, value_ms, TIME, runtime, fpsName, tim }

\* The tables pd.read_csv may return: 1..MaxCols columns of distinct names
\* (read_csv renames duplicates), each numeric-typed or not.
Tables ==
    UNION { { t \in [1..n -> [name : ColumnNames, numeric : BOOLEAN]] :
                \A i, j \in 1..n : i # j => t[i].name # t[j].name } :
            n \in 1..MaxCols }

UpperCase == << "A", "B", "C", "D", "E", "F", "G", "H", "I", "J", "K", "L", "M",
                "N", "O", "P", "Q", "R", "S", "T", "U", "V", "W", "X", "Y", "Z" >>
LowerCase == << "a", "b", "c", "d", "e", "f", "g", "h", "i", "j", "k", "l", "m",
                "n", "o", "p", "q", "r", "s", "t", "u", "v", "w", "x", "y", "z" >>

\* str.lower().
lower(str) ==
    [k \in 1..Len(str) |->
        IF \E u \in 1..Len(UpperCase) : UpperCase[u] = str[k]
        THEN LowerCase[CHOOSE u \in 1..Len(UpperCase) : UpperCase[u] = str[k]]
        ELSE str[k]]

RECURSIVE StartsAt(_, _, _)
\* sub occurs in str at offset k or later.
StartsAt(sub, str, k) ==
    IF k + Len(sub) - 1 > Len(str) THEN FALSE
    ELSE IF SubSeq(str, k, k + Len(sub) - 1) = sub THEN TRUE
    ELSE StartsAt(sub, str, k + 1)

\* sub in str.
In(sub, str) == StartsAt(sub, str, 1)

\* Variant of LooksLikeTime: 'time' in col, without lower().
LooksLikeTimeCaseSensitive(col) == In(<< "t", "i", "m", "e" >>, col)

\* Line 17: 'time' in col.lower().
LooksLikeTime(col) == In(<< "t", "i", "m", "e" >>, lower(col))

RECURSIVE ScanColumns(_, _)
\* Lines 16-21: the for loop over df.columns from column k on.
ScanColumns(t, k) ==
    IF k > Len(t) THEN None
    ELSE IF LooksLikeTime(t[k].name) THEN t[k].name
    ELSE ScanColumns(t, k + 1)

\* Lines 14-21.
find_timestamp_column(t) == ScanColumns(t, 1)

\* Line 25: df.select_dtypes(include=np.number).columns.tolist().
RECURSIVE SelectNumeric(_)
SelectNumeric(t) ==
    IF Len(t) = 0 THEN << >>
    ELSE (IF Head(t).numeric THEN << Head(t).name >> ELSE << >>)
           \o SelectNumeric(Tail(t))

RECURSIVE Remove(_, _)
\* list.remove(x): the first occurrence goes.
Remove(l, x) ==
    IF l = << >> THEN << >>
    ELSE IF Head(l) = x THEN Tail(l)
    ELSE << Head(l) >> \o Remove(Tail(l), x)

\* Lines 23-29.
find_numeric_columns(t, tc) ==
    LET cols == SelectNumeric(t)
    IN  IF \E k \in 1..Len(cols) : cols[k] = tc THEN Remove(cols, tc) ELSE cols

ReadResultsComma == {"ok", "ParserError", "OtherError"}
ReadResultsSemi == {"ok", "Error"}

PlotterIdle ==
    /\ mpc = "idle"
    /\ csvExists = FALSE
    /\ commaResult = "ok"
    /\ semiResult = "ok"
    /\ df = << >>
    /\ time_col = None
    /\ numeric_cols = << >>
    /\ outdir = FALSE
    /\ images = {}
    /\ plotted = 0
    /\ diagnostic = "none"
    /\ reads = 0
    /\ mainOutcome = "running"

PlotterInit ==
    /\ mpc = "L92"
    /\ csvExists \in BOOLEAN
    /\ commaResult \in ReadResultsComma
    /\ semiResult \in ReadResultsSemi
    /\ df = << >>
    /\ time_col = None
    /\ numeric_cols = << >>
    /\ outdir = FALSE
    /\ images = {}
    /\ plotted = 0
    /\ diagnostic = "none"
    /\ reads = 0
    /\ mainOutcome = "running"

\* Lines 92-94.
M92_Exists ==
    /\ mpc = "L92"
    /\ IF ~csvExists
       THEN /\ diagnostic' = "not_found"
            /\ mainOutcome' = "returned"
            /\ mpc' = "done"
       ELSE /\ mpc' = "L99"
            /\ UNCHANGED << diagnostic, mainOutcome >>
    /\ UNCHANGED << csvExists, commaResult, semiResult, df, time_col,
                    numeric_cols, outdir, images, plotted, reads >>
    /\ UNCHANGED << trackerVars, anomalyVars >>

\* Lines 98-100: pd.read_csv(csv_path, sep=','); only pd.errors.ParserError
\* is caught, any other exception leaves main.
M99_ReadComma ==
    /\ mpc = "L99"
    /\ reads' = reads + 1
    /\ \/ /\ commaResult = "ok"
          /\ \E t \in Tables : df' = t
          /\ mpc' = "L108"
          /\ UNCHANGED mainOutcome
       \/ /\ commaResult = "ParserError"
          /\ mpc' = "L102"
          /\ UNCHANGED << df, mainOutcome >>
       \/ /\ commaResult = "OtherError"
          /\ mpc' = "done"
          /\ mainOutcome' = "raised"
          /\ UNCHANGED df
    /\ UNCHANGED << csvExists, commaResult, semiResult, time_col,
                    numeric_cols, outdir, images, plotted, diagnostic >>
    /\ UNCHANGED << trackerVars, anomalyVars >>

\* Lines 101-105: pd.read_csv(csv_path, sep=';'); any Exception is reported
\* and main returns.
M102_ReadSemicolon ==
    /\ mpc = "L102"
    /\ reads' = reads + 1
    /\ \/ /\ semiResult = "ok"
          /\ \E t \in Tables : df' = t
          /\ mpc' = "L108"
          /\ UNCHANGED << diagnostic, mainOutcome >>
       \/ /\ semiResult = "Error"
          /\ diagnostic' = "parse"
          /\ mainOutcome' = "returned"
          /\ mpc' = "done"
          /\ UNCHANGED df
    /\ UNCHANGED << csvExists, commaResult, semiResult, time_col,
                    numeric_cols, outdir, images, plotted >>
    /\ UNCHANGED << trackerVars, anomalyVars >>

\* Lines 108-109.
M108_Classify ==
    /\ mpc = "L108"
    /\ time_col' = find_timestamp_column(df)
    /\ numeric_cols' = find_numeric_columns(df, find_timestamp_column(df))
    /\ mpc' = "L111"
    /\ UNCHANGED << csvExists, commaResult, semiResult, df, outdir, images,
                    plotted, diagnostic, reads, mainOutcome >>
    /\ UNCHANGED << trackerVars, anomalyVars >>

\* Variant of M111_NoNumeric: the test of line 111 left out.
M111_PlotAnyway ==
    /\ mpc = "L111"
    /\ mpc' = "L116"
    /\ UNCHANGED << csvExists, commaResult, semiResult, df, time_col,
                    numeric_cols, outdir, images, plotted, diagnostic, reads,
                    mainOutcome >>
    /\ UNCHANGED << trackerVars, anomalyVars >>

\* Lines 111-113.
M111_NoNumeric ==
    /\ mpc = "L111"
    /\ IF numeric_cols = << >>
       THEN /\ diagnostic' = "no_numeric"
            /\ mainOutcome' = "returned"
            /\ mpc' = "done"
       ELSE /\ mpc' = "L116"
            /\ UNCHANGED << diagnostic, mainOutcome >>
    /\ UNCHANGED << csvExists, commaResult, semiResult, df, time_col,
                    numeric_cols, outdir, images, plotted, reads >>
    /\ UNCHANGED << trackerVars, anomalyVars >>

\* Lines 116-125: the time column becomes the index and leaves the columns;
\* without one, reset_index inserts the row ordinal as column 'index'.
M116_Convert ==
    /\ mpc = "L116"
    /\ IF time_col # None
       THEN /\ df' = SelectSeq(df, LAMBDA c : c.name # time_col)
            /\ UNCHANGED time_col
       ELSE /\ df' = << [name |-> indexName, numeric |-> TRUE] >> \o df
            /\ time_col' = indexName
    /\ mpc' = "L52"
    /\ UNCHANGED << csvExists, commaResult, semiResult, numeric_cols, outdir,
                    images, plotted, diagnostic, reads, mainOutcome >>
    /\ UNCHANGED << trackerVars, anomalyVars >>

\* Line 52: Path(output_dir).mkdir(parents=True, exist_ok=True).
M52_Mkdir ==
    /\ mpc = "L52"
    /\ outdir' = TRUE
    /\ mpc' = "L54"
    /\ UNCHANGED << csvExists, commaResult, semiResult, df, time_col,
                    numeric_cols, images, plotted, diagnostic, reads,
                    mainOutcome >>
    /\ UNCHANGED << trackerVars, anomalyVars >>

\* Lines 54-85 and 129: one image per numeric column, then main returns.
M54_Plot ==
    /\ mpc = "L54"
    /\ IF plotted < Len(numeric_cols)
       THEN /\ images' = images \cup { numeric_cols[plotted + 1] }
            /\ plotted' = plotted + 1
            /\ UNCHANGED << mpc, mainOutcome >>
       ELSE /\ mpc' = "done"
            /\ mainOutcome' = "returned"
            /\ UNCHANGED << images, plotted >>
    /\ UNCHANGED << csvExists, commaResult, semiResult, df, time_col,
                    numeric_cols, outdir, diagnostic, reads >>
    /\ UNCHANGED << trackerVars, anomalyVars >>

PlotterNext ==
    \/ M92_Exists
    \/ M99_ReadComma
    \/ M102_ReadSemicolon
    \/ M108_Classify
    \/ M111_NoNumeric
    \/ M116_Convert
    \/ M52_Mkdir
    \/ M54_Plot


\* =========================================================================
\*                            Specifications
\* =========================================================================

\* The Sampler.
Init == TrackerInit /\ AnomalyIdle /\ PlotterIdle
Next == TrackerNext
Spec == Init /\ [][Next]_vars

\* detect_anomalies on every column of Columns and threshold of Thresholds.
InitAnomaly == TrackerInit /\ file = << >> /\ AnomalyInit /\ PlotterIdle
NextAnomaly == AnomalyNext
SpecAnomaly == InitAnomaly /\ [][NextAnomaly]_vars

\* main of the Analyzer on every file state and every table of Tables.
InitPlotter == TrackerInit /\ file = << >> /\ AnomalyIdle /\ PlotterInit
NextPlotter == PlotterNext
SpecPlotter == InitPlotter /\ [][NextPlotter]_vars


\* =========================================================================
\*                               Claims
\* =========================================================================

\* The data rows of the log: its records after the first.
DataRows == IF Len(file) = 0 THEN 0 ELSE Len(file) - 1

\* Positions between the boundary test of line 69 and the reset of line 87.
FlushPositions == {"L72", "L75", "L77", "L77x", "L86"}

\* C1: when run_tracker has ended, by the duration or by an interruption,
\* the number of data rows in the log equals the number of 1-second
\* boundaries crossed (iterations whose test of line 69 was true).
C1_RowsEqualBoundaries ==
    (pc = "done" /\ headerWritten /\ loopExit \in {"break", "interrupt"})
        => DataRows = boundaries

\* C2: once the header is written the log is the header row followed only
\* by complete three-field rows, whatever the position an interruption
\* arrives at; a row is appended only for a boundary that was crossed, and
\* an interruption between two flushes appends none.
C2_LogWellFormed ==
    headerWritten =>
        /\ Len(file) >= 1
        /\ file[1] = << "timestamp", "fps", "active_window" >>
        /\ \A i \in 2..Len(file) : Len(file[i]) = 3
        /\ DataRows <= boundaries
        /\ (interrupts = 1 /\ intrAt = "loop") => DataRows = boundaries

\* A run interrupted in the middle of a flush, after at least one row: the
\* boundary of the interrupted flush has no row, the log has the others.
C2_Witness ==
    /\ pc = "done"
    /\ headerWritten
    /\ intrAt = "flush"
    /\ DataRows >= 1
    /\ boundaries = DataRows + 1

\* C3: a KeyboardInterrupt arriving during the start delay, the header
\* write, the capture loop or a flush is caught: it never leaves
\* run_tracker, and the run ends with the summary printed and a normal
\* return.
C3_InterruptCaught ==
    (interrupts = 1 /\ intrAt \in {"delay", "header", "loop", "flush"}) =>
        /\ outcome # "KeyboardInterrupt"
        /\ pc = "done" => (summary /\ outcome = "returned")

\* C4: a failing sct.grab or a failing gw.getActiveWindow never ends the
\* loop, and a record whose window query failed or found no window carries
\* the label "Desktop".
C4_FailuresNonFatal ==
    /\ loopExit \notin {"capture_error", "query_error"}
    /\ (pc \in {"L75", "L77", "L77x"}
          /\ lastQuery \in {"None", "PyGetWindowException", "OtherException"})
         => active_window = "Desktop"

\* C5: the loop is left by the break of line 62 only with a bounded
\* duration and once the elapsed time has reached it; with the 'infinite'
\* duration the loop is left by an interruption only.
C5_LoopExit ==
    /\ loopExit = "break" =>
         (duration # Infinite /\ now - start_time >= duration * TicksPerSecond)
    /\ (duration = Infinite /\ loopExit # "none") => loopExit = "interrupt"

\* The sums the claims about detect_anomalies are stated with.
RECURSIVE SumV(_)
SumV(s) == IF s = << >> THEN 0 ELSE Head(s).v + SumV(Tail(s))
RECURSIVE SumV2(_)
SumV2(s) == IF s = << >> THEN 0 ELSE Head(s).v * Head(s).v + SumV2(Tail(s))
Present(s) == SelectSeq(s, LAMBDA c : ~c.nan)
\* n times the sum of squared deviations from the mean.
SpreadOf(s) == Len(s) * SumV2(s) - SumV(s) * SumV(s)
NoMissing(s) == \A i \in 1..Len(s) : ~s[i].nan

IsConstant(s) ==
    /\ Len(s) >= 1
    /\ \A i \in 1..Len(s) : ~s[i].nan /\ s[i].v = s[1].v

TimeLetters == << {"t", "T"}, {"i", "I"}, {"m", "M"}, {"e", "E"} >>
\* The name contains "time", in any mix of cases.
ContainsTime(name) ==
    \E k \in 1..Len(name) :
        /\ k + 3 <= Len(name)
        /\ \A j \in 1..4 : name[k + j - 1] \in TimeLetters[j]

\* C8: after classification the time column is the first column, in
\* declared order, whose name contains "time" case-insensitively, or None
\* when there is none (and nothing is raised); the numeric series are the
\* numeric-typed columns other than the time column, in declared order.
\* Columns Timestamp, value_ms give Timestamp and the sole series value_ms.
C8_Classifier ==
    mpc = "L111" =>
        /\ mainOutcome = "running"
        /\ time_col = None <=> (\A i \in 1..Len(df) : ~ContainsTime(df[i].name))
        /\ time_col # None =>
             \E i \in 1..Len(df) :
                /\ df[i].name = time_col
                /\ ContainsTime(df[i].name)
                /\ \A j \in 1..(i - 1) : ~ContainsTime(df[j].name)
        /\ LET kept == SelectSeq(df, LAMBDA c : c.numeric /\ c.name # time_col)
           IN  numeric_cols = [i \in 1..Len(kept) |-> kept[i].name]
        /\ (Len(df) = 2 /\ df[1].name = Timestamp /\ df[2].name = value_ms
              /\ df[2].numeric)
             => (time_col = Timestamp /\ numeric_cols = << value_ms >>)

\* The table of the example, with a text-typed Timestamp, classified.
C8_Witness ==
    /\ mpc = "L111"
    /\ df = << [name |-> Timestamp, numeric |-> FALSE],
               [name |-> value_ms, numeric |-> TRUE] >>
    /\ time_col = Timestamp
    /\ numeric_cols = << value_ms >>

NotFound == mpc # "idle" /\ ~csvExists
BothParsesFail ==
    mpc # "idle" /\ csvExists /\ commaResult = "ParserError" /\ semiResult = "Error"
NoNumericColumns ==
    /\ numeric_cols = << >>
    /\ \/ mpc \in {"L111", "L116", "L52", "L54"}
       \/ mpc = "done" /\ reads > 0 /\ mainOutcome = "returned" /\ diagnostic # "parse"

\* C9: when the path does not exist, when the file fails to parse under the
\* comma and then under the semicolon (one retry, no more), or when no
\* numeric column is left after classification, main prints a diagnostic
\* and returns: it raises nothing, never reaches the plotting step, creates
\* no directory and writes no image.
C9_EarlyReturn ==
    /\ reads <= 2
    /\ (NotFound /\ mpc = "done") => (reads = 0 /\ diagnostic = "not_found")
    /\ (BothParsesFail /\ mpc = "done") => (reads = 2 /\ diagnostic = "parse")
    /\ (NoNumericColumns /\ mpc = "done") => diagnostic = "no_numeric"
    /\ (NotFound \/ BothParsesFail \/ NoNumericColumns) =>
          /\ mpc \notin {"L116", "L52", "L54"}
          /\ ~outdir
          /\ images = {}
          /\ mainOutcome # "raised"
          /\ mpc = "done" => mainOutcome = "returned"

\* main has returned for a table that has columns but no numeric series.
C9_Witness ==
    /\ mpc = "done"
    /\ Len(df) >= 1
    /\ NoNumericColumns
    /\ diagnostic = "no_numeric"

\* C10: with a bounded duration D the log never holds more than D data
\* rows (none when D = 0), and the k-th flush runs at least k seconds
\* after start_time.
C10_RowsAtMostDuration ==
    /\ (headerWritten /\ duration # Infinite) => DataRows <= duration
    /\ (pc \in FlushPositions) =>
          current_time - start_time >= boundaries * TicksPerSecond

\* A run of a positive duration D that ended by the duration check with
\* exactly D data rows.
C10_Witness ==
    /\ pc = "done"
    /\ loopExit = "break"
    /\ duration > 0
    /\ DataRows = duration

====
